---- MODULE Spec2Model ----
(***************************************************************************)
(* A model of the GPT / MosaicBert transformer stacks and of their         *)
(* Composer adapters (llm/gpt_old.py, llm/gpt.py, src/mosaic_bert.py).     *)
(*                                                                         *)
(* Three families of operations are modelled:                              *)
(*   - construction of a stack: module allocation in constructor order,    *)
(*     the ValueError of an unknown attn_impl, self.apply(param_init_fn);  *)
(*   - the forward pass of a stack and of one block, in fixed-point        *)
(*     arithmetic (seven decimals) over 2-wide activations;                *)
(*   - the adapter: get_targets, loss, update_metric, get_metrics,         *)
(*     forward, eval_forward on a batch.                                   *)
(***************************************************************************)
EXTENDS Integers, Sequences, FiniteSets, TLC

VARIABLES
    cfg,            \* the configuration the stack is built from
    pc,             \* position of the constructor: start/alloc/apply/done/error
    err,            \* the exception construction ended with, or "none"
    allocated,      \* modules whose constructor has completed, in order
    visited,        \* modules self.apply(param_init_fn) has visited, in order
    ext_visited,    \* modules an external pass has applied param_init_fn to
    ptag,           \* parameter -> the initialisation its tensor last received
    params,         \* numeric values of a constructed stack's weights
    net,            \* the rows the stack with these weights has been run on
    call,           \* the last call made on the stack/adapter, with its result
    batch,          \* the batch handed to the adapter
    batch0,         \* the batch as the data loader produced it
    heap,           \* metric accumulator objects: object id -> state
    train_metrics,  \* the adapter's train_metrics dict: name -> object id
    eval_metrics,   \* the adapter's eval_metrics dict: name -> object id
    n_updates       \* number of metric.update calls made so far

vars == <<cfg, pc, err, allocated, visited, ext_visited, ptag, params, net,
          call,
          batch, batch0, heap, train_metrics, eval_metrics, n_updates>>

ctorVars == <<pc, err, allocated, visited, ext_visited, ptag>>
adapterVars == <<batch, batch0, heap, train_metrics, eval_metrics, n_updates>>

\* ---------------------------------------------------------------- bounds

\* Largest n_layers a configuration is drawn with.
MaxLayers == 2
\* Largest number of cells (batch * seq) of a tensor handed to an operation.
MaxCells == 4
\* Largest max_seq_len a configuration is drawn with.
MaxSeqLen == 2
\* Number of metric.update calls after which no further one is made.
MaxUpdates == 2

\* The "ignore" label of cross_entropy(ignore_index=-100).
IGNORE == -100

\* ---------------------------------------------------------------- helpers

Range(f) == {f[x] : x \in DOMAIN f}

RECURSIVE ConcatAll(_)
ConcatAll(ss) == IF ss = <<>> THEN <<>> ELSE Head(ss) \o ConcatAll(Tail(ss))

\* ------------------------------------------------- construction: modules

\* A module is <<blk, name>>: blk = 0 for the stack's own modules, l in
\* 1..n_layers for the modules of the l-th block.

\* The selectors each variant's block constructor accepts.
Supported(c) ==
    IF c.variant = "GPT" THEN c.attn_impl \in {"torch", "flash"}
    ELSE c.attn_impl = "flash"

\* nn.MultiheadAttention: in_proj_weight / in_proj_bias are parameters of the
\* MultiheadAttention module itself; its only Linear child is out_proj.
TorchAttnModules(l) ==
    << <<l, "causal_attn.mha.out_proj">>, <<l, "causal_attn.mha">>,
       <<l, "causal_attn">> >>

\* FlashMHA: Wqkv and out_proj are both nn.Linear children.
FlashAttnModules(l) ==
    << <<l, "causal_attn.mha.Wqkv">>, <<l, "causal_attn.mha.inner_attn">>,
       <<l, "causal_attn.mha.out_proj">>, <<l, "causal_attn.mha">>,
       <<l, "causal_attn">> >>

\* The attention modules of block l; for an unsupported selector the
\* assignment to causal_attn is the statement that raises.
AttnModules(c, l) ==
    IF ~Supported(c) THEN << <<l, "causal_attn">> >>
    ELSE IF c.attn_impl = "torch" THEN TorchAttnModules(l)
    ELSE FlashAttnModules(l)

MLPModules(l) ==
    << <<l, "mlp.mlp_up">>, <<l, "mlp.mlp_act">>, <<l, "mlp.mlp_down">>,
       <<l, "mlp">> >>

\* Modules of block l in the order their constructors complete.
BlockModules(c, l) ==
    << <<l, "ln_1">> >> \o AttnModules(c, l) \o << <<l, "ln_2">> >>
    \o MLPModules(l)
    \o << <<l, "resid_attn_dropout">>, <<l, "resid_mlp_dropout">>,
          <<l, "block">> >>

\* All modules of the stack in the order their constructors complete, which
\* is also the (children first) order nn.Module.apply visits them in.
ModuleOrder(c) ==
    << <<0, "transformer.wte">>, <<0, "transformer.wpe">>,
       <<0, "transformer.emb_drop">> >>
    \o ConcatAll([l \in 1..c.n_layers |-> BlockModules(c, l)])
    \o << <<0, "transformer.blocks">>, <<0, "transformer.ln_f">>,
          <<0, "transformer">>, <<0, "lm_head">>, <<0, "stack">> >>

\* The class of a module, as param_init_fn's isinstance tests see it.
Kind(c, m) ==
    IF m[2] \in {"transformer.wte", "transformer.wpe"} THEN "Embedding"
    ELSE IF m[2] \in {"ln_1", "ln_2", "transformer.ln_f"} THEN "LayerNorm"
    ELSE IF m[2] \in {"mlp.mlp_up", "mlp.mlp_down", "lm_head",
                      "causal_attn.mha.out_proj", "causal_attn.mha.Wqkv"}
         THEN "Linear"
    ELSE IF m[2] = "causal_attn.mha"
         THEN (IF c.attn_impl = "torch" THEN "MultiheadAttention"
               ELSE "FlashMHA")
    ELSE "Other"

\* The _is_residual tag set at construction.
IsResidual(m) == m[2] \in {"causal_attn.mha.out_proj", "mlp.mlp_down"}

\* lm_head is built with bias=False.
HasBias(m) == m[2] /= "lm_head"

\* Names of the parameters a module registers itself.
OwnParams(c, m) ==
    LET k == Kind(c, m) IN
    IF k = "Linear" THEN (IF HasBias(m) THEN {"weight", "bias"} ELSE {"weight"})
    ELSE IF k = "Embedding" THEN {"weight"}
    ELSE IF k = "LayerNorm" THEN {"weight", "bias"}
    ELSE IF k = "MultiheadAttention" THEN {"in_proj_weight", "in_proj_bias"}
    ELSE {}

ParamsOf(c, m) == {<<m[1], m[2], p>> : p \in OwnParams(c, m)}

AllParams(c) == UNION {ParamsOf(c, m) : m \in Range(ModuleOrder(c))}

\* ------------------------------------------ construction: initialisations

\* What a tensor was last filled with.  A normal draw carries its variance
\* as the fraction num/den.
Dist(d) == [dist |-> d, num |-> 0, den |-> 1]
Normal(n, d) == [dist |-> "normal", num |-> n, den |-> d]

\* normal_(std=cfg.init_std): init_std is the fraction s[1]/s[2].
NormalStd(c) == Normal(c.init_std[1] * c.init_std[1],
                       c.init_std[2] * c.init_std[2])

\* normal_(std=cfg.init_std / sqrt(2 * cfg.n_layers)).
NormalResidual(c) == Normal(c.init_std[1] * c.init_std[1],
                            c.init_std[2] * c.init_std[2] * 2 * c.n_layers)

\* What the library's own constructor leaves in a parameter.
DefaultTag(c, m, p) ==
    LET k == Kind(c, m) IN
    IF c.device = "meta" THEN Dist("meta")
    ELSE IF k = "Linear"
         THEN (IF p = "weight" THEN Dist("kaiming_uniform") ELSE Dist("uniform"))
    ELSE IF k = "Embedding" THEN Normal(1, 1)
    ELSE IF k = "LayerNorm"
         THEN (IF p = "weight" THEN Dist("ones") ELSE Dist("zeros"))
    ELSE IF p = "in_proj_weight" THEN Dist("xavier_uniform")
    ELSE Dist("zeros")

\* An in-place init on a tensor: a no-op on a placeholder (meta) tensor.
InitOp(old, new) == IF old.dist = "meta" THEN old ELSE new

\* param_init_fn(module) on the tags t.
ParamInitFn(c, m, t) ==
    LET k == Kind(c, m)
        w == <<m[1], m[2], "weight">>
        b == <<m[1], m[2], "bias">>
    IN IF k = "Linear"
       THEN LET t1 == [t EXCEPT ![w] = InitOp(@, NormalStd(c))]
                t2 == IF HasBias(m)
                      THEN [t1 EXCEPT ![b] = InitOp(@, Dist("zeros"))]
                      ELSE t1
            IN IF IsResidual(m)
               THEN [t2 EXCEPT ![w] = InitOp(@, NormalResidual(c))]
               ELSE t2
       ELSE IF k = "Embedding"
       THEN [t EXCEPT ![w] = InitOp(@, NormalStd(c))]
       ELSE IF k = "LayerNorm"
       THEN [t EXCEPT ![b] = InitOp(@, Dist("zeros")),
                      ![w] = InitOp(@, Dist("ones"))]
       ELSE t

\* The tags after module m's constructor has completed.
\* MultiheadAttention._reset_parameters also zeroes out_proj.bias.
AllocTags(c, m, t) ==
    LET fresh == [q \in ParamsOf(c, m) |-> DefaultTag(c, m, q[3])]
        t1 == fresh @@ t
        ob == <<m[1], "causal_attn.mha.out_proj", "bias">>
    IN IF Kind(c, m) = "MultiheadAttention"
       THEN [t1 EXCEPT ![ob] = InitOp(@, Dist("zeros"))]
       ELSE t1

ShouldApply_always(c) == TRUE

\* "if device != 'meta': self.apply(self.param_init_fn)".
ShouldApply(c) == c.device /= "meta"

\* ---------------------------------------------------- construction: steps

InitStds == {<<1, 50>>, <<1, 10>>}

CtorConfigs ==
    [variant : {"GPT"}, attn_impl : {"torch", "flash", "bogus"},
     device : {"cuda", "meta"}, n_layers : 0..MaxLayers,
     max_seq_len : {MaxSeqLen}, init_std : InitStds, name : {"gpt"}]
    \cup
    [variant : {"BERT"}, attn_impl : {"torch", "flash", "bogus"},
     device : {"cuda", "meta"}, n_layers : 0..MaxLayers,
     max_seq_len : {MaxSeqLen}, init_std : InitStds,
     name : {"mosaic_bert", "gpt"}]

NoParams == [wq |-> 0, wo |-> 0]
NoNet == <<>>
NoCall == [op |-> "none"]
NoBatch == [labels |-> <<>>, input_ids |-> <<>>, attention_mask |-> <<>>]

\* MosaicBert.__init__ asserts cfg.name == 'mosaic_bert' before anything.
NameOk(c) == c.variant = "BERT" => c.name = "mosaic_bert"

\* Entering the constructor.
Begin ==
    /\ pc = "start"
    /\ IF NameOk(cfg)
       THEN pc' = "alloc" /\ err' = err
       ELSE pc' = "error" /\ err' = "AssertionError"
    /\ UNCHANGED <<cfg, allocated, visited, ext_visited, ptag, params, net, call>>
    /\ UNCHANGED adapterVars

\* The constructor of the next module completes, or (for the attention
\* module of a block under an unsupported selector) raises ValueError.
AllocStep ==
    /\ pc = "alloc"
    /\ LET order == ModuleOrder(cfg)
           m == order[Len(allocated) + 1]
       IN IF m[2] = "causal_attn" /\ ~Supported(cfg)
          THEN /\ pc' = "error"
               /\ err' = "ValueError"
               /\ UNCHANGED <<allocated, ptag>>
          ELSE /\ allocated' = Append(allocated, m)
               /\ ptag' = AllocTags(cfg, m, ptag)
               /\ err' = err
               /\ pc' = IF Len(allocated) + 1 < Len(order) THEN "alloc"
                        ELSE IF ShouldApply(cfg) THEN "apply"
                        ELSE "done"
    /\ UNCHANGED <<cfg, visited, ext_visited, params, net, call>>
    /\ UNCHANGED adapterVars

\* self.apply(self.param_init_fn) visits the next module.
ApplyStep ==
    /\ pc = "apply"
    /\ LET order == ModuleOrder(cfg)
           m == order[Len(visited) + 1]
       IN /\ visited' = Append(visited, m)
          /\ ptag' = ParamInitFn(cfg, m, ptag)
          /\ pc' = IF Len(visited) + 1 < Len(order) THEN "apply" ELSE "done"
    /\ UNCHANGED <<cfg, err, allocated, ext_visited, params, net, call>>
    /\ UNCHANGED adapterVars

\* The external orchestrator's pass over a model built on 'meta': it
\* materialises a module's parameters (to_empty) and applies param_init_fn.
ExternalInit ==
    /\ pc = "done"
    /\ cfg.device = "meta"
    /\ Len(ext_visited) < Len(ModuleOrder(cfg))
    /\ LET m == ModuleOrder(cfg)[Len(ext_visited) + 1]
           ps == ParamsOf(cfg, m)
           empty == [q \in DOMAIN ptag |->
                        IF q \in ps THEN Dist("empty") ELSE ptag[q]]
       IN /\ ext_visited' = Append(ext_visited, m)
          /\ ptag' = ParamInitFn(cfg, m, empty)
    /\ UNCHANGED <<cfg, pc, err, allocated, visited, params, net, call>>
    /\ UNCHANGED adapterVars

InitCtor ==
    /\ cfg \in CtorConfigs
    /\ pc = "start"
    /\ err = "none"
    /\ allocated = <<>>
    /\ visited = <<>>
    /\ ext_visited = <<>>
    /\ ptag = <<>>
    /\ params = NoParams
    /\ net = NoNet
    /\ call = NoCall
    /\ batch = NoBatch
    /\ batch0 = NoBatch
    /\ heap = <<>>
    /\ train_metrics = <<>>
    /\ eval_metrics = <<>>
    /\ n_updates = 0

NextCtor == Begin \/ AllocStep \/ ApplyStep \/ ExternalInit

SpecCtor == InitCtor /\ [][NextCtor]_vars

\* ------------------------------------------------- construction: claims

\* The tag is a normal draw of variance n/d.
IsNormalVar(tag, n, d) == tag.dist = "normal" /\ tag.num * d = tag.den * n

\* The initialisation the policy of the specification assigns to parameter
\* q = <<blk, module, name>> by its kind.
CarriesPolicyInit(c, q) ==
    LET s == c.init_std
        t == ptag[q]
        projection == {"causal_attn.mha.out_proj", "causal_attn.mha.Wqkv",
                       "causal_attn.mha", "mlp.mlp_up", "mlp.mlp_down",
                       "lm_head"}
    IN IF q[2] \in {"ln_1", "ln_2", "transformer.ln_f"}
       THEN t.dist = (IF q[3] = "weight" THEN "ones" ELSE "zeros")
       ELSE IF q[2] \in {"transformer.wte", "transformer.wpe"}
       THEN IsNormalVar(t, s[1] * s[1], s[2] * s[2])
       ELSE IF q[2] \in projection /\ q[3] \in {"bias", "in_proj_bias"}
       THEN t.dist = "zeros"
       ELSE IF q[2] \in {"causal_attn.mha.out_proj", "mlp.mlp_down"}
       THEN IsNormalVar(t, s[1] * s[1], s[2] * s[2] * 2 * c.n_layers)
       ELSE IsNormalVar(t, s[1] * s[1], s[2] * s[2])

\* C5: after construction on a materialising device every parameter carries
\* the initialisation the policy assigns to its kind (residual projection
\* weights std s/sqrt(2L), other projection weights and embeddings std s,
\* projection biases 0, normalisation scale 1 and bias 0), under either
\* attn_impl selector.
C5_EveryParamPolicyInit ==
    (pc = "done" /\ cfg.device /= "meta")
        => \A q \in AllParams(cfg) :
              q \in DOMAIN ptag /\ CarriesPolicyInit(cfg, q)

\* C6: a construction with an unsupported attn_impl selector (and an
\* otherwise accepted configuration) never yields a model: it ends with a
\* ValueError, whatever n_layers is.
C6_UnknownSelectorFails ==
    (~Supported(cfg) /\ NameOk(cfg) /\ pc \in {"done", "error"})
        => (pc = "error" /\ err = "ValueError")

\* C10: two-phase initialisation.  The policy visits a module only after
\* every module of the stack has been allocated, visits no module twice, has
\* visited every module exactly once when a constructor on a materialising
\* device returns, and is not run at all by a constructor on 'meta', whose
\* parameters stay placeholders until the external pass starts.
C10_TwoPhaseInit ==
    LET order == ModuleOrder(cfg) IN
    /\ visited /= <<>> => allocated = order
    /\ \A i, j \in DOMAIN visited : visited[i] = visited[j] => i = j
    /\ (pc = "done" /\ cfg.device /= "meta") => visited = order
    /\ cfg.device = "meta" =>
          /\ visited = <<>>
          /\ ext_visited = <<>> =>
                \A q \in DOMAIN ptag : ptag[q].dist = "meta"
    /\ \A q \in DOMAIN ptag :
          ptag[q].dist \in {"normal", "zeros", "ones"} /\ visited /= <<>>
             => <<q[1], q[2]>> \in Range(allocated)

\* A constructor on a materialising device has returned a stack with at
\* least one block, the policy having visited all of its modules.
C10_Witness ==
    /\ pc = "done"
    /\ cfg.device /= "meta"
    /\ cfg.n_layers >= 1
    /\ Len(visited) = Len(ModuleOrder(cfg))
    /\ ptag[<<1, "mlp.mlp_down", "weight">>] = NormalResidual(cfg)

\* ---------------------------------------------------- forward: numerics

\* Token ids of the vocabulary; vocab_size is the size of this set.
Tokens == {0, 1}

\* A float of the stack is a fixed-point number of seven decimals: the
\* integer a stands for a / One.  Weights are whole numbers and multiply by
\* plain "*".  No intermediate value leaves 32 bits.
One == 10000000

Abs(a) == IF a < 0 THEN -a ELSE a

Max(S) == CHOOSE m \in S : \A k \in S : m >= k

RECURSIVE SumOver(_, _)
SumOver(f, S) ==
    IF S = {} THEN 0
    ELSE LET j == CHOOSE k \in S : TRUE IN f[j] + SumOver(f, S \ {j})

\* a * b of two floats a, b >= 0, rounded to the nearest: a is split at
\* 10^4 and b at 10^3.
MulAbs(a, b) ==
    LET a1 == a \div 10000
        a0 == a % 10000
        b1 == b \div 1000
        b0 == b % 1000
    IN a1 * b1
       + (10 * a1 * b0 + a0 * b1 + (a0 * b0) \div 1000 + 5000) \div 10000

\* a * b of two floats, rounded to the nearest (ties away from 0).
Mul(a, b) ==
    LET m == MulAbs(Abs(a), Abs(b))
    IN IF (a < 0) = (b < 0) THEN m ELSE -m

\* a / n for a whole number n > 0, rounded to the nearest (ties away from 0).
DivInt(a, n) ==
    LET q == (Abs(a) + n \div 2) \div n
    IN IF a < 0 THEN -q ELSE q

\* Long division: k more decimal digits of r / b behind the quotient q, the
\* last one rounded.
RECURSIVE DivDigits(_, _, _, _)
DivDigits(r, b, k, q) ==
    IF k = 0 THEN q + (IF 2 * r >= b THEN 1 ELSE 0)
    ELSE DivDigits((10 * r) % b, b, k - 1, 10 * q + (10 * r) \div b)

\* a / b of two floats, b /= 0.
Div(a, b) ==
    LET n == Abs(a)
        m == Abs(b)
        q == DivDigits(n % m, m, 7, n \div m)
    IN IF (a < 0) = (b < 0) THEN q ELSE -q

\* The whole-number square root of n >= 0 (Newton's iteration from above).
RECURSIVE IsqrtIter(_, _)
IsqrtIter(n, x) ==
    LET y == (x + n \div x) \div 2
    IN IF y >= x THEN x ELSE IsqrtIter(n, y)

Isqrt(n) == IF n = 0 THEN 0 ELSE IsqrtIter(n, 46341)

\* The whole part of sqrt(One).
SqrtOne == 3162

\* sqrt(v) of a float v >= 0.25: two Newton steps from the whole-number
\* root.
Sqrt(v) ==
    LET s0 == Isqrt(v) * SqrtOne
        s1 == (s0 + Div(v, s0)) \div 2
    IN DivInt(s1 + Div(v, s1), 2)

\* eps of nn.LayerNorm (its default, 1e-5).
Eps == 100

\* 1 / (2 * sqrt(eps)) = 158.113883.
InvTwoSqrtEps == 1581138830

\* nn.LayerNorm with scale 1 and bias 0 on a d_model = 2 wide vector:
\* (x - mean) / sqrt(var + eps) with the biased variance.  The centred
\* components are d/2 and -d/2 for d = x[1] - x[2] and var = (d/2)^2, so
\* the result is (t, -t) for t = d / sqrt(d^2 + 4 eps).  Numerator and
\* denominator are scaled by one factor (1 / (2 sqrt(eps)) for a small d,
\* a whole number K that brings d near 10 otherwise, 1/10 for a large d) so
\* that the square keeps seven significant digits.
LayerNorm(x) ==
    LET d == x[1] - x[2]
        a == Abs(d)
        K == (10 * One) \div a
        G == IF a < One \div 16 THEN Mul(InvTwoSqrtEps, d)
             ELSE IF a <= 10 * One THEN K * d
             ELSE DivInt(d, 10)
        E == IF a < One \div 16 THEN One
             ELSE IF a <= 10 * One THEN 4 * Eps * K * K
             ELSE (4 * Eps) \div 100
        r == Sqrt(Mul(G, G) + E)
    IN <<Div(G, r), Div(-G, r)>>

\* exp(-k) for k = 0, 1, 2, ...
ExpNeg ==
    <<10000000, 3678794, 1353353, 497871, 183156, 67379, 24788, 9119, 3355,
      1234, 454, 167, 61, 23, 8, 3, 1>>

\* The terms m..M of the series of exp(-f): term is (-f)^m / m!.
RECURSIVE ExpSeries(_, _, _, _)
ExpSeries(f, term, m, M) ==
    IF m > M \/ term = 0 THEN 0
    ELSE term + ExpSeries(f, DivInt(-Mul(term, f), m + 1), m + 1, M)

\* exp(y) for y <= 0, as softmax takes it after subtracting the maximum.
Exp(y) ==
    LET n == -y
        k == n \div One
    IN IF k >= Len(ExpNeg) THEN 0
       ELSE Mul(ExpNeg[k + 1], ExpSeries(n % One, One, 0, 14))

\* 1 / sqrt(2 * pi).
InvSqrt2Pi == 3989423

\* The terms m..M of sum (-1)^m u^(2m+1) / (m! 2^m (2m+1)): c is
\* (-1)^m u^(2m+1) / (m! 2^m) and u2 is u^2.
RECURSIVE PhiSeries(_, _, _, _)
PhiSeries(u2, c, m, M) ==
    IF m > M \/ c = 0 THEN 0
    ELSE DivInt(c, 2 * m + 1)
         + PhiSeries(u2, DivInt(-Mul(c, u2), 2 * (m + 1)), m + 1, M)

\* The standard normal distribution function 0.5 * (1 + erf(u / sqrt(2))),
\* by its series around 0 (activations behind a LayerNorm are within
\* [-1, 1]; the series is used for |u| <= 2).
Phi(u) ==
    IF u >= 6 * One THEN One
    ELSE IF u <= -6 * One THEN 0
    ELSE One \div 2 + Mul(InvSqrt2Pi, PhiSeries(Mul(u, u), u, 0, 40))

\* nn.GELU(approximate='none'): u * Phi(u).
Gelu(u) == Mul(u, Phi(u))

VAdd(x, y) == <<x[1] + y[1], x[2] + y[2]>>
VScale(k, x) == <<k * x[1], k * x[2]>>
VDot(x, y) == Mul(x[1], y[1]) + Mul(x[2], y[2])

\* The weights a constructed and initialised stack may hold.  Projection
\* matrices are whole multiples of the identity (wq, wk, wv, wo, up, down),
\* biases are 0 and normalisation scales 1, as param_init_fn leaves them;
\* there is one attention head.
ParamDraws ==
    { [wq |-> 1, wk |-> 1, wv |-> 1, wo |-> 1, up |-> 1, down |-> 1,
       wte |-> [t \in Tokens |-> IF t = 0 THEN <<1, 0>> ELSE <<0, 1>>],
       wpe |-> [p \in 0..MaxSeqLen |-> <<0, p % 2>>],
       head |-> [t \in Tokens |-> IF t = 0 THEN <<1, 0>> ELSE <<0, 1>>]],
      [wq |-> -1, wk |-> 1, wv |-> 1, wo |-> 2, up |-> 1, down |-> 2,
       wte |-> [t \in Tokens |-> IF t = 0 THEN <<1, 0>> ELSE <<0, 1>>],
       wpe |-> [p \in 0..MaxSeqLen |-> <<0, 0>>],
       head |-> [t \in Tokens |-> IF t = 0 THEN <<1, 0>> ELSE <<0, 1>>]] }

\* An absent key_padding_mask argument (Python's None).
None == <<>>

\* The row of key_padding_mask an attention call sees: None is all-valid.
MaskRow(mask, b, S) == IF mask = None THEN [j \in 1..S |-> TRUE] ELSE mask[b]

\* 1 / sqrt(head_dim), the scale of the attention scores; head_dim is
\* d_model / n_heads = 2.
InvSqrtHeadDim == 7071068

\* The scaled score of query vector q against key vector k.
Score(q, k) == Mul(VDot(q, k), InvSqrtHeadDim)

\* The softmax(sc)-weighted mean of the values v over the key set ks.
Attend(sc, v, ks) ==
    LET hi == Max({sc[j] : j \in ks})
        w == [j \in ks |-> Exp(sc[j] - hi)]
        tot == SumOver(w, ks)
    IN << Div(SumOver([j \in ks |-> Mul(w[j], v[j][1])], ks), tot),
          Div(SumOver([j \in ks |-> Mul(w[j], v[j][2])], ks), tot) >>

\* TorchCausalAttention.forward on one row a (length S): key_padding_mask
\* is not passed on, and the float buffer tril(ones) is ADDED to the scores,
\* so every key 1..S is attended.  A buffer of another shape than (S, S)
\* is the RuntimeError of multi_head_attention_forward.
TorchCausalAttention(c, P, a, kpm) ==
    LET S == Len(a)
        q == [i \in 1..S |-> VScale(P.wq, a[i])]
        k == [i \in 1..S |-> VScale(P.wk, a[i])]
        v == [i \in 1..S |-> VScale(P.wv, a[i])]
        tril == [i \in 1..S |-> [j \in 1..S |-> IF j <= i THEN One ELSE 0]]
    IN IF S /= c.max_seq_len
       THEN [ok |-> FALSE, err |-> "RuntimeError"]
       ELSE [ok |-> TRUE,
             out |-> [i \in 1..S |->
                 VScale(P.wo,
                    Attend([j \in 1..S |-> Score(q[i], k[j]) + tril[i][j]],
                           v, 1..S))]]

\* FlashMHA.forward on one row: padded positions are removed before the
\* kernel and zero-filled after it; causal=True keeps the keys j <= i.
FlashAttention(causal, P, a, kpm) ==
    LET S == Len(a)
        q == [i \in 1..S |-> VScale(P.wq, a[i])]
        k == [i \in 1..S |-> VScale(P.wk, a[i])]
        v == [i \in 1..S |-> VScale(P.wv, a[i])]
        keys(i) == {j \in 1..S : kpm[j] /\ (causal => j <= i)}
    IN [ok |-> TRUE,
        out |-> [i \in 1..S |->
            IF ~kpm[i] THEN VScale(P.wo, <<0, 0>>)
            ELSE VScale(P.wo,
                   Attend([j \in 1..S |-> Score(q[i], k[j])], v, keys(i)))]]

\* self.causal_attn(a, key_padding_mask) of the block the configuration
\* selects.
CausalAttn(c, P, a, kpm) ==
    IF c.variant = "GPT" /\ c.attn_impl = "torch"
    THEN TorchCausalAttention(c, P, a, kpm)
    ELSE FlashAttention(c.variant = "GPT", P, a, kpm)

\* GPTMLP.forward / BERTMLP.forward on one vector.
MLP(P, m) ==
    LET u == VScale(P.up, m)
    IN VScale(P.down, <<Gelu(u[1]), Gelu(u[2])>>)

\* GPTBlock.forward / BERTBlock.forward on one row x; dropout is the
\* identity (evaluation mode).
Block(c, P, x, kpm) ==
    LET S == Len(x)
        a == [i \in 1..S |-> LayerNorm(x[i])]
        r == CausalAttn(c, P, a, kpm)
    IN IF ~r.ok THEN r
       ELSE LET x1 == [i \in 1..S |-> VAdd(x[i], r.out[i])]
                x2 == [i \in 1..S |->
                          VAdd(x1[i], MLP(P, LayerNorm(x1[i])))]
            IN [ok |-> TRUE, out |-> x2, attn |-> r.out]

\* "for block in self.transformer.blocks: x = block(x, key_padding_mask)".
RECURSIVE Blocks(_, _, _, _, _)
Blocks(c, P, x, kpm, n) ==
    IF n = 0 THEN [ok |-> TRUE, out |-> x]
    ELSE LET r == Block(c, P, x, kpm)
         IN IF ~r.ok THEN r ELSE Blocks(c, P, r.out, kpm, n - 1)

\* GPT.forward / MosaicBert.forward on one row of token ids.
ForwardRow(c, P, ids, kpm) ==
    LET S == Len(ids)
        x == [i \in 1..S |-> VScale(One, VAdd(P.wte[ids[i]], P.wpe[i - 1]))]
        r == Blocks(c, P, x, kpm, c.n_layers)
    IN IF ~r.ok THEN r
       ELSE [ok |-> TRUE,
             out |-> [i \in 1..S |->
                 LET h == LayerNorm(r.out[i])
                 IN [t \in Tokens |->
                        P.head[t][1] * h[1] + P.head[t][2] * h[2]]]]

\* The stacks a constructor can build here, and their configurations.
StackKinds == {<<"GPT", "torch">>, <<"GPT", "flash">>, <<"BERT", "flash">>}

FwdConfigs ==
    {[variant |-> k[1], attn_impl |-> k[2], device |-> "cuda",
      n_layers |-> n, max_seq_len |-> MaxSeqLen, init_std |-> <<1, 50>>,
      name |-> IF k[1] = "BERT" THEN "mosaic_bert" ELSE "gpt"] :
        k \in StackKinds, n \in 0..MaxLayers}

\* The rows of at most n values from vals, each with a key_padding_mask
\* row of its length.
RowArgs(n, vals) ==
    UNION {{<<r, kpm>> : r \in [1..S -> vals], kpm \in [1..S -> BOOLEAN]} :
           S \in 1..n}

\* The stack (c, P) run on each row of at most max_seq_len token ids.  The
\* weights do not change after construction, so neither do these rows.
ForwardRows(c, P) ==
    [a \in RowArgs(c.max_seq_len, Tokens) |-> ForwardRow(c, P, a[1], a[2])]

\* GPT.forward / MosaicBert.forward on a batch: the assert on the length,
\* then every row through the stack (rows: what the stack returns on a row).
ForwardOn(rows, c, input_ids, mask) ==
    LET B == Len(input_ids)
        S == Len(input_ids[1])
        ret == [b \in 1..B |-> rows[<<input_ids[b], MaskRow(mask, b, S)>>]]
    IN IF S > c.max_seq_len
       THEN [ok |-> FALSE, err |-> "AssertionError"]
       ELSE IF \E b \in 1..B : ~ret[b].ok
       THEN [ok |-> FALSE, err |-> ret[1].err]
       ELSE [ok |-> TRUE, logits |-> [b \in 1..B |-> ret[b].out]]

\* GPT.forward / MosaicBert.forward of the stack (c, P).
Forward(c, P, input_ids, mask) ==
    ForwardOn(ForwardRows(c, P), c, input_ids, mask)

\* Activation vectors handed to a block: (1.0, 0.0) and (0.0, 1.0).
ActVecs == {<<One, 0>>, <<0, One>>}

\* The block of the stack (c, P) run on each row of at most
\* max_seq_len + 1 activations.
BlockRows(c, P) ==
    [a \in RowArgs(c.max_seq_len + 1, ActVecs) |-> Block(c, P, a[1], a[2])]

\* GPTBlock.forward on a batch of activations (rows: what the block returns
\* on a row): the block's output, and the output of its attention.
BlockForwardOn(rows, x, mask) ==
    LET B == Len(x)
        S == Len(x[1])
        ret == [b \in 1..B |-> rows[<<x[b], MaskRow(mask, b, S)>>]]
    IN IF \E b \in 1..B : ~ret[b].ok
       THEN [ok |-> FALSE, err |-> ret[1].err]
       ELSE [ok |-> TRUE,
             out |-> [b \in 1..B |-> ret[b].out],
             attn |-> [b \in 1..B |-> ret[b].attn]]

\* GPTBlock.forward of the block of the stack (c, P).
BlockForward(c, P, x, mask) == BlockForwardOn(BlockRows(c, P), x, mask)

\* ------------------------------------------------------ forward: actions

\* Shapes (batch, seq) of at most MaxCells cells.
Shapes == {sh \in (1..MaxCells) \X (1..MaxCells) : sh[1] * sh[2] <= MaxCells}

Tensors(sh, vals) == [1..sh[1] -> [1..sh[2] -> vals]]

\* key_padding_mask arguments: None, or a mask with one padded position.
Masks(sh) ==
    {None} \cup
    {[b \in 1..sh[1] |-> [j \in 1..sh[2] |-> ~(b = bb /\ j = jj)]] :
        bb \in 1..sh[1], jj \in 1..sh[2]}

\* The tags a completed construction on a materialising device leaves:
\* every parameter has been through its module's constructor and through
\* param_init_fn on its module.
ConstructedTags(c) ==
    LET unallocated == [q \in AllParams(c) |-> Dist("unallocated")]
    IN [q \in AllParams(c) |->
          LET m == <<q[1], q[2]>>
          IN ParamInitFn(c, m, AllocTags(c, m, unallocated))[q]]

\* The state a completed construction on a materialising device leaves.
Constructed(c) ==
    /\ cfg = c
    /\ pc = "done"
    /\ err = "none"
    /\ allocated = ModuleOrder(c)
    /\ visited = ModuleOrder(c)
    /\ ext_visited = <<>>
    /\ ptag = ConstructedTags(c)

\* A call of the stack's forward on a batch of token ids.
DoForward(input_ids, mask) ==
    /\ pc = "done"
    /\ call' = [op |-> "forward", input_ids |-> input_ids, mask |-> mask,
                ret |-> ForwardOn(net, cfg, input_ids, mask)]
    /\ UNCHANGED <<cfg, params, net>>
    /\ UNCHANGED ctorVars
    /\ UNCHANGED adapterVars

CallForward ==
    \E sh \in Shapes :
        /\ sh[2] <= cfg.max_seq_len + 1
        /\ \E ids \in Tensors(sh, Tokens) :
              \E mask \in {None, [b \in 1..sh[1] |-> [j \in 1..sh[2] |-> j < sh[2]]]} :
                 DoForward(ids, mask)

\* A constructed stack c with weights P that has not been called.
StackInit(c, P) ==
    /\ Constructed(c)
    /\ params = P
    /\ call = NoCall
    /\ batch = NoBatch
    /\ batch0 = NoBatch
    /\ heap = <<>>
    /\ train_metrics = <<>>
    /\ eval_metrics = <<>>
    /\ n_updates = 0

InitFwd ==
    \E c \in FwdConfigs : \E P \in ParamDraws :
        /\ StackInit(c, P)
        /\ net = ForwardRows(c, P)

NextFwd == CallForward

SpecFwd == InitFwd /\ [][NextFwd]_vars

\* A call of one block's forward on a batch of activations.
DoBlockForward(x, mask) ==
    /\ pc = "done"
    /\ cfg.n_layers >= 1
    /\ call' = [op |-> "block", x |-> x, mask |-> mask,
                ret |-> BlockForwardOn(net, x, mask)]
    /\ UNCHANGED <<cfg, params, net>>
    /\ UNCHANGED ctorVars
    /\ UNCHANGED adapterVars

CallBlockForward ==
    \E sh \in Shapes :
        /\ sh[2] <= cfg.max_seq_len + 1
        /\ \E x \in Tensors(sh, ActVecs) :
              \E mask \in Masks(sh) : DoBlockForward(x, mask)

InitBlock ==
    \E c \in {c \in FwdConfigs : c.variant = "GPT" /\ c.n_layers = 1} :
        \E P \in ParamDraws :
            /\ StackInit(c, P)
            /\ net = BlockRows(c, P)

NextBlock == CallBlockForward

SpecBlock == InitBlock /\ [][NextBlock]_vars

\* ------------------------------------------------------- forward: claims

\* Two consecutive calls of op on tensors of one shape with the same mask.
Repeated(op, arg) ==
    /\ call.op = op
    /\ call'.op = op
    /\ call'.mask = call.mask
    /\ Len(call'[arg]) = Len(call[arg])
    /\ Len(call'[arg][1]) = Len(call[arg][1])

\* C1: in the causal GPT stack, under either attn_impl selector, the logits
\* at position i do not change when only token ids at positions > i change.
C1_CausalMasking ==
    [][ (cfg.variant = "GPT" /\ Repeated("forward", "input_ids")
         /\ call.ret.ok /\ call'.ret.ok)
        => \A b \in DOMAIN call.input_ids :
             \A i \in DOMAIN call.input_ids[b] :
                (\A j \in 1..i : call'.input_ids[b][j] = call.input_ids[b][j])
                   => call'.ret.logits[b][i] = call.ret.logits[b][i] ]_vars

\* C2: forward returns logits of shape (batch, seq, vocab_size) if and only
\* if seq <= max_seq_len, for either selector, and fails with the length
\* error for every longer input.
C2_ForwardShape ==
    call.op = "forward" =>
        LET B == Len(call.input_ids)
            S == Len(call.input_ids[1])
        IN /\ call.ret.ok <=> S <= cfg.max_seq_len
           /\ S > cfg.max_seq_len => call.ret.err = "AssertionError"
           /\ call.ret.ok =>
                /\ DOMAIN call.ret.logits = 1..B
                /\ \A b \in 1..B :
                      /\ DOMAIN call.ret.logits[b] = 1..S
                      /\ \A i \in 1..S :
                            DOMAIN call.ret.logits[b][i] = Tokens

\* C7: under both selectors the causal attention applies the caller's
\* validity mask: changing the activation at a padded position leaves the
\* attention output at every other position unchanged.
C7_PaddingMasked ==
    [][ (cfg.variant = "GPT" /\ Repeated("block", "x") /\ call.mask /= None
         /\ call.ret.ok /\ call'.ret.ok
         /\ \A b \in DOMAIN call.x : \A j \in DOMAIN call.x[b] :
               call.mask[b][j] => call'.x[b][j] = call.x[b][j])
        => \A b \in DOMAIN call.x : \A i \in DOMAIN call.x[b] :
               call.mask[b][i] => call'.ret.attn[b][i] = call.ret.attn[b][i]
      ]_vars

\* ------------------------------------------------------ adapter: tensors

\* tensor.view(-1): the rows of a (B, S) tensor one after the other.
Flatten(t) == ConcatAll(t)

\* The (B, S) tensor over the flat sequence f.
Unflatten(f, B, S) == [b \in 1..B |-> [j \in 1..S |-> f[(b - 1) * S + j]]]

\* A tensor value together with the storage it lives in: "labels" is the
\* storage of batch['labels'], "fresh" a newly allocated one.
Tensor(data, store) == [data |-> data, store |-> store]

Roll_view(t, shifts) ==
    LET B == Len(t.data)
        S == Len(t.data[1])
        f == Flatten(t.data)
        N == B * S
    IN Tensor(Unflatten([p \in 1..N |-> f[((p - 1 - shifts) % N) + 1]], B, S),
              t.store)

\* torch.roll(t, shifts) without dims: the tensor is flattened, rolled
\* (out[p] = in[(p - shifts) mod N]) and restored to its shape, in a new
\* tensor.
Roll(t, shifts) ==
    LET B == Len(t.data)
        S == Len(t.data[1])
        f == Flatten(t.data)
        N == B * S
    IN Tensor(Unflatten([p \in 1..N |-> f[((p - 1 - shifts) % N) + 1]], B, S),
              "fresh")

SetLastColumn_lastCell(t, v) ==
    LET B == Len(t.data)
        S == Len(t.data[1])
    IN Tensor([t.data EXCEPT ![B][S] = v], t.store)

\* "targets[:, -1] = v": an in-place write to the last column.
SetLastColumn(t, v) ==
    LET S == Len(t.data[1])
    IN Tensor([b \in DOMAIN t.data |-> [t.data[b] EXCEPT ![S] = v]], t.store)

\* The batch after an in-place write left tensor t: a write to the storage
\* of batch['labels'] is a write to the batch.
WriteBack(bt, t) ==
    IF t.store = "labels" THEN [bt EXCEPT !.labels = t.data] ELSE bt

\* get_targets(batch): the returned targets and the batch it leaves.
\* GPT rolls the labels left by one and writes the sentinel to the last
\* column; MosaicBert returns batch['labels'] itself.
GetTargets(variant, bt) ==
    LET labels == Tensor(bt.labels, "labels")
        t == IF variant = "GPT"
             THEN SetLastColumn(Roll(labels, -1), IGNORE)
             ELSE labels
    IN [targets |-> t.data, batch |-> WriteBack(bt, t)]

\* ---------------------------------------------------- adapter: the loss

\* The terms m..M of sum w^(2m+1) / ((2m+1) 4^m): c is w^(2m+1) / 4^m and
\* w2 is w^2.
RECURSIVE LnSeries(_, _, _, _)
LnSeries(w2, c, m, M) ==
    IF m > M \/ c = 0 THEN 0
    ELSE DivInt(c, 2 * m + 1)
         + LnSeries(w2, DivInt(Mul(c, w2), 4), m + 1, M)

\* The natural logarithm of a float z, 1 <= z <= 4, by the series of
\* 2 * atanh(w / 2) for w = 2 * (z - 1) / (z + 1).
Ln(z) ==
    LET w == Div(2 * (z - One), z + One)
    IN LnSeries(Mul(w, w), w, 0, 40)

\* logsumexp of a row of logits: the largest logit plus the logarithm of
\* the sum of the exponentials of the others' distances to it.
Lse(row) ==
    LET hi == Max(Range(row))
    IN hi + Ln(SumOver([t \in DOMAIN row |-> Exp(row[t] - hi)], DOMAIN row))

\* The negative log-likelihood of target t under the logits row.
Nll(row, t) == Lse(row) - row[t]

\* A loss value: a float, or the NaN of a mean over no element.
Loss(v) == [nan |-> FALSE, value |-> v]
NaN == [nan |-> TRUE, value |-> 0]

\* Positions of the flat targets that are not the ignore_index.
Included(tgt) == {p \in DOMAIN tgt : tgt[p] /= IGNORE}

CrossEntropySum_noIgnore(out, tgt) ==
    SumOver([p \in DOMAIN tgt |->
                IF tgt[p] = IGNORE THEN Nll(out[p], 0) ELSE Nll(out[p], tgt[p])],
            DOMAIN tgt)

\* cross_entropy(out, tgt, ignore_index=-100, reduction='sum').
CrossEntropySum(out, tgt) ==
    SumOver([p \in Included(tgt) |-> Nll(out[p], tgt[p])], Included(tgt))

\* F.cross_entropy(out, tgt, ignore_index=-100): the mean over the
\* positions that are not ignored.
CrossEntropy(out, tgt) ==
    LET n == Cardinality(Included(tgt))
    IN IF n = 0 THEN NaN ELSE Loss(DivInt(CrossEntropySum(out, tgt), n))

\* ------------------------------------------------------ adapter: metrics

\* The keys of the metric dicts, in the order the constructor builds them.
MetricOrder(variant) ==
    IF variant = "GPT" THEN <<"LanguageCrossEntropy", "Perplexity">>
    ELSE <<"MaskedAccuracy", "LanguageCrossEntropy", "Perplexity">>

\* self.train_metrics = {...}: name -> the object constructed for it.
TrainMetricsCtor(variant) ==
    LET o == MetricOrder(variant)
    IN [n \in Range(o) |-> CHOOSE i \in DOMAIN o : o[i] = n]

EvalMetricsCtor_shared(variant) == TrainMetricsCtor(variant)

\* self.eval_metrics = {...}: a second set of newly constructed objects.
EvalMetricsCtor(variant) ==
    LET o == MetricOrder(variant)
    IN [n \in Range(o) |-> Len(o) + CHOOSE i \in DOMAIN o : o[i] = n]

\* The name each metric object was constructed under.
MetricKind(variant, id) ==
    LET o == MetricOrder(variant) IN o[((id - 1) % Len(o)) + 1]

\* A newly constructed accumulator.
NewMetric(kind) == [kind |-> kind, acc |-> 0, total |-> 0]

\* The smallest index of a largest logit.
ArgMax(row) ==
    CHOOSE t \in DOMAIN row :
        /\ \A u \in DOMAIN row : row[u] <= row[t]
        /\ \A u \in DOMAIN row : row[u] = row[t] => t <= u

\* metric.update(outputs, targets) on the flat outputs and targets.
\* LanguageCrossEntropy (and Perplexity, its subclass) adds the summed loss
\* and the number of non-ignored targets; MaskedAccuracy adds the number of
\* correct predictions among the non-ignored targets and their number.
MetricUpdate(m, out, tgt) ==
    LET inc == Included(tgt) IN
    IF m.kind = "MaskedAccuracy"
    THEN [m EXCEPT !.acc = @ + Cardinality({p \in inc : ArgMax(out[p]) = tgt[p]}),
                   !.total = @ + Cardinality(inc)]
    ELSE [m EXCEPT !.acc = @ + CrossEntropySum(out, tgt),
                   !.total = @ + Cardinality(inc)]

\* "return self.train_metrics if is_train else self.eval_metrics", with
\* is_train=False the default.
GetMetrics(is_train) ==
    IF is_train = "True" THEN train_metrics ELSE eval_metrics

\* ------------------------------------------------------ adapter: actions

\* attention_mask.bool().
ToBool(t) == [b \in DOMAIN t |-> [j \in DOMAIN t[b] |-> t[b][j] /= 0]]

\* ComposerGPT.forward / ComposerMosaicBert.forward.
AdapterForwardOn(rows, c, bt) ==
    ForwardOn(rows, c, bt.input_ids, ToBool(bt.attention_mask))

\* ComposerGPT.forward / ComposerMosaicBert.forward over the stack (c, P).
AdapterForward(c, P, bt) == AdapterForwardOn(ForwardRows(c, P), c, bt)

\* get_targets(batch).
CallGetTargets ==
    /\ batch /= NoBatch
    /\ LET r == GetTargets(cfg.variant, batch)
       IN /\ call' = [op |-> "get_targets", ret |-> r.targets]
          /\ batch' = r.batch
    /\ UNCHANGED <<cfg, params, net, batch0, heap, train_metrics, eval_metrics,
                   n_updates>>
    /\ UNCHANGED ctorVars

\* loss(outputs, batch).
CallLoss(outputs) ==
    /\ batch /= NoBatch
    /\ LET r == GetTargets(cfg.variant, batch)
       IN /\ call' = [op |-> "loss", outputs |-> outputs,
                      targets |-> r.targets, mask |-> None,
                      ret |-> CrossEntropy(Flatten(outputs),
                                           Flatten(r.targets))]
          /\ batch' = r.batch
    /\ UNCHANGED <<cfg, params, net, batch0, heap, train_metrics, eval_metrics,
                   n_updates>>
    /\ UNCHANGED ctorVars

\* forward(batch).
CallAdapterForward ==
    /\ batch /= NoBatch
    /\ call' = [op |-> "adapter_forward",
                ret |-> AdapterForwardOn(net, cfg, batch)]
    /\ UNCHANGED <<cfg, params, net>>
    /\ UNCHANGED adapterVars
    /\ UNCHANGED ctorVars

\* eval_forward(batch, outputs): the outputs handed in, or forward(batch)
\* when there are none.
CallEvalForward(outputs) ==
    /\ batch /= NoBatch
    /\ call' = [op |-> "eval_forward", outputs |-> outputs,
                ret |-> IF outputs /= None THEN [ok |-> TRUE, logits |-> outputs]
                        ELSE AdapterForwardOn(net, cfg, batch)]
    /\ UNCHANGED <<cfg, params, net>>
    /\ UNCHANGED adapterVars
    /\ UNCHANGED ctorVars

\* get_metrics(is_train).
CallGetMetrics(is_train) ==
    /\ batch /= NoBatch
    /\ call' = [op |-> "get_metrics", is_train |-> is_train,
                ret |-> GetMetrics(is_train)]
    /\ UNCHANGED <<cfg, params, net>>
    /\ UNCHANGED adapterVars
    /\ UNCHANGED ctorVars

\* update_metric(batch, outputs, metric) on the metric object id.
CallUpdateMetric(outputs, id) ==
    /\ batch /= NoBatch
    /\ n_updates < MaxUpdates
    /\ LET r == GetTargets(cfg.variant, batch)
       IN /\ heap' = [heap EXCEPT
                         ![id] = MetricUpdate(@, Flatten(outputs),
                                              Flatten(r.targets))]
          /\ batch' = r.batch
          /\ call' = [op |-> "update_metric", outputs |-> outputs,
                      metric |-> id]
    /\ n_updates' = n_updates + 1
    /\ UNCHANGED <<cfg, params, net, batch0, train_metrics, eval_metrics>>
    /\ UNCHANGED ctorVars

\* Label values: the token ids and the ignore sentinel.
LabelValues == Tokens \cup {IGNORE}

\* The batch the data loader builds around the labels L: the token id is the
\* label where there is one (token 0 elsewhere), and the attention mask
\* marks the positions that carry a label.
DataBatch(L) ==
    [labels |-> L,
     input_ids |-> [b \in DOMAIN L |-> [j \in DOMAIN L[b] |->
                       IF L[b][j] = IGNORE THEN 0 ELSE L[b][j]]],
     attention_mask |-> [b \in DOMAIN L |-> [j \in DOMAIN L[b] |->
                       IF L[b][j] = IGNORE THEN 0 ELSE 1]]]

\* Logit rows handed in as outputs: all the mass on one token.
OutRows == {[t \in Tokens |-> IF t = k THEN One ELSE 0] : k \in Tokens}

\* The state the adapter's constructor leaves: the stack c with weights P,
\* and the two metric dicts over newly constructed accumulators.
AdapterConstructed(c, P) ==
    /\ Constructed(c)
    /\ params = P
    /\ call = NoCall
    /\ train_metrics = TrainMetricsCtor(c.variant)
    /\ eval_metrics = EvalMetricsCtor(c.variant)
    /\ heap = [id \in Range(TrainMetricsCtor(c.variant))
                      \cup Range(EvalMetricsCtor(c.variant)) |->
                  NewMetric(MetricKind(c.variant, id))]
    /\ n_updates = 0

AdapterConfigs == {c \in FwdConfigs : c.n_layers = 1}

UnitParams == CHOOSE P \in ParamDraws : P.wo = 1

\* The trainer's loop over one batch: every adapter operation, with the
\* outputs the trainer holds for the batch.
Init ==
    /\ \E c \in AdapterConfigs :
          /\ AdapterConstructed(c, UnitParams)
          /\ net = ForwardRows(c, UnitParams)
    /\ \E sh \in Shapes : \E L \in Tensors(sh, {IGNORE, 1}) :
          batch = DataBatch(L)
    /\ batch0 = batch

\* The outputs the trainer holds for the batch: the first token everywhere.
HeldOutputs ==
    [b \in DOMAIN batch.labels |-> [j \in DOMAIN batch.labels[b] |->
        [t \in Tokens |-> IF t = 0 THEN One ELSE 0]]]

Next ==
    \/ CallGetTargets
    \/ CallLoss(HeldOutputs)
    \/ CallAdapterForward
    \/ \E o \in {None, HeldOutputs} : CallEvalForward(o)
    \/ \E t \in {"True", "False", "default"} : CallGetMetrics(t)
    \/ \E id \in DOMAIN heap : CallUpdateMetric(HeldOutputs, id)

Spec == Init /\ [][Next]_vars

\* get_targets and loss on every batch of labels and every outputs tensor.
InitLoss ==
    /\ \E c \in {c \in AdapterConfigs : c.attn_impl = "flash"} :
          AdapterConstructed(c, UnitParams)
    /\ net = NoNet
    /\ \E sh \in Shapes : \E L \in Tensors(sh, LabelValues) :
          batch = DataBatch(L)
    /\ batch0 = batch

NextLoss ==
    \/ CallGetTargets
    \/ \E o \in Tensors(<<Len(batch.labels), Len(batch.labels[1])>>, OutRows) :
          CallLoss(o)

SpecLoss == InitLoss /\ [][NextLoss]_vars

\* ------------------------------------------------------- adapter: claims

\* C3: the causal get_targets on labels of shape (B, S) returns
\* targets[b][i] = labels[b][i+1] for every i < S-1 (0-based) and the
\* sentinel -100 at the last position of every row; no target comes from
\* another row.
C3_GetTargetsShift ==
    (call.op = "get_targets" /\ cfg.variant = "GPT") =>
        LET L == batch0.labels
            B == Len(L)
            S == Len(L[1])
        IN /\ DOMAIN call.ret = 1..B
           /\ \A b \in 1..B :
                 /\ DOMAIN call.ret[b] = 1..S
                 /\ \A i \in 1..(S - 1) : call.ret[b][i] = L[b][i + 1]
                 /\ call.ret[b][S] = IGNORE

\* get_targets has returned for a causal batch of at least two rows and two
\* columns whose second row starts with a real label (the label the flat
\* roll moves to the end of the first row).
C3_Witness ==
    /\ call.op = "get_targets"
    /\ cfg.variant = "GPT"
    /\ Len(batch0.labels) >= 2
    /\ Len(batch0.labels[1]) >= 2
    /\ batch0.labels[2][1] /= IGNORE
    /\ batch0.labels[1][2] /= IGNORE
    /\ call.ret[1] = <<batch0.labels[1][2], IGNORE>>

\* C4: two calls of loss whose outputs differ only at positions whose
\* target is the sentinel return the same loss.
C4_LossIgnoresSentinel ==
    [][ (/\ call.op = "loss"
         /\ call'.op = "loss"
         /\ call'.targets = call.targets
         /\ \A b \in DOMAIN call.targets : \A i \in DOMAIN call.targets[b] :
               call.targets[b][i] /= IGNORE
                  => call'.outputs[b][i] = call.outputs[b][i])
        => call'.ret = call.ret ]_vars

\* The causal loss has returned a number for a batch of two rows, with
\* outputs at the last position of the first row (a sentinel target) that
\* put the mass on another token than the outputs at its first position.
C4_Witness ==
    /\ call.op = "loss"
    /\ cfg.variant = "GPT"
    /\ Len(call.targets) >= 2
    /\ Len(call.targets[1]) >= 2
    /\ call.targets[1][1] /= IGNORE
    /\ call.targets[1][2] = IGNORE
    /\ call.outputs[1][2] /= call.outputs[1][1]
    /\ ~call.ret.nan
    /\ call.ret.value > 0

\* C8: get_metrics(True) returns the training set and get_metrics(False),
\* also the default, the evaluation set; the sets share no accumulator, and
\* an update of an accumulator of one set leaves every accumulator of the
\* other set as it was.
C8_MetricSetsSeparate ==
    [][ /\ call'.op = "get_metrics" =>
              call'.ret = (IF call'.is_train = "True" THEN train_metrics'
                           ELSE eval_metrics')
        /\ Range(train_metrics) \cap Range(eval_metrics) = {}
        /\ (n_updates' = n_updates + 1 /\ call'.metric \in Range(train_metrics))
              => \A id \in Range(eval_metrics) : heap'[id] = heap[id]
        /\ (n_updates' = n_updates + 1 /\ call'.metric \in Range(eval_metrics))
              => \A id \in Range(train_metrics) : heap'[id] = heap[id]
      ]_vars

\* A training accumulator has been updated with counted targets while every
\* evaluation accumulator is still as constructed.
C8_Witness ==
    /\ call.op = "update_metric"
    /\ call.metric \in Range(train_metrics)
    /\ heap[call.metric].total > 0
    /\ \A id \in Range(eval_metrics) :
          heap[id] = NewMetric(MetricKind(cfg.variant, id))

\* C9: the adapter leaves the batch as the data loader produced it, and
\* get_targets returns the targets of that batch every time it is called.
C9_BatchReadOnly ==
    /\ batch = batch0
    /\ call.op = "get_targets" =>
          call.ret = GetTargets(cfg.variant, batch0).targets

\* After two metric updates on a causal batch whose last label is a real
\* token, get_targets has returned targets ending in the sentinel while the
\* batch still holds the label.
C9_Witness ==
    /\ call.op = "get_targets"
    /\ cfg.variant = "GPT"
    /\ n_updates = MaxUpdates
    /\ LET B == Len(batch.labels)
           S == Len(batch.labels[1])
       IN /\ batch.labels[B][S] /= IGNORE
          /\ call.ret[B][S] = IGNORE

====
